---- MODULE Spec2Model ----
(***************************************************************************)
(* FastAPI-for-ML: the in-memory CRUD routers of first_project (users,     *)
(* items) and the PATCH example of "Pydantic for data validation".         *)
(*                                                                         *)
(* A Python dict is a sequence of entries [k, v] in insertion order; a     *)
(* record (a dict with string keys, or a pydantic model) is a function     *)
(* from field names to values.  Every handler is one action; `last` keeps  *)
(* what the most recent request was and what it answered.                  *)
(***************************************************************************)
EXTENDS Integers, Sequences, FiniteSets, TLC

VARIABLES users, items, dummy_db, posts, now, timestamp, instances, ever, last, tasks

vars == <<users, items, dummy_db, posts, now, timestamp, instances, ever, last, tasks>>

(* ------------------------------ bounds --------------------------------- *)

\* Largest identifier a create may assign in the model.
MaxId == 3

MaxPage == 2

MaxTime == 2

MaxInstances == 4

MaxLen == 4

MaxTasks == 3

(* --------------------------- status codes ------------------------------ *)

HTTP_200_OK == 200
HTTP_201_CREATED == 201
HTTP_204_NO_CONTENT == 204
HTTP_404_NOT_FOUND == 404
\* Answer of the framework when a declared parameter constraint fails.
HTTP_422_UNPROCESSABLE == 422
\* Answer of the framework when a handler raises anything but HTTPException.
HTTP_500_INTERNAL == 500

(* ------------------------------ dicts ---------------------------------- *)

\* The empty record: the body of a request without one, the value of a
\* handler that returns None or raises.
NoRecord == [f \in {} |-> 0]

NoId == -1

Keys(d) == {d[i].k : i \in DOMAIN d}

Has(d, k) == k \in Keys(d)

Index(d, k) == CHOOSE i \in DOMAIN d : d[i].k = k

Get(d, k) == d[Index(d, k)].v

\* A slip in assignment: the key is removed and inserted again, which moves
\* it to the end.
PutLast(d, k, v) == Append(SelectSeq(d, LAMBDA e : e.k # k), [k |-> k, v |-> v])

\* A slip in the write: for key in d: d[key] = v, then d[k] = v.
PutEverywhere(d, k, v) ==
    LET all == [i \in DOMAIN d |-> [k |-> d[i].k, v |-> v]]
    IN IF Has(d, k) THEN all ELSE Append(all, [k |-> k, v |-> v])

\* d[k] = v: an existing key keeps its position, a new key goes last.
Put(d, k, v) ==
    IF Has(d, k) THEN [d EXCEPT ![Index(d, k)] = [k |-> k, v |-> v]]
    ELSE Append(d, [k |-> k, v |-> v])

\* A slip in delete: d.clear()
DelClear(d, k) == << >>

\* A slip in delete: the entry is reported as deleted and stays.
DelKeep(d, k) == d

\* del d[k]
Del(d, k) == SelectSeq(d, LAMBDA e : e.k # k)

\* list(d.values())
Values(d) == [i \in DOMAIN d |-> d[i].v]

\* {**a, **b} and a.update(b): the keys of b win.
Merge(a, b) ==
    [f \in (DOMAIN a) \cup (DOMAIN b) |-> IF f \in DOMAIN b THEN b[f] ELSE a[f]]

\* The fields fs of record r (a response_model keeps only its own fields).
Project(r, fs) == [f \in (DOMAIN r) \cap fs |-> r[f]]

Max(S) == CHOOSE m \in S : \A x \in S : x <= m

(* ------------------ first_project: schemas and stores ------------------ *)

UserType == {"Admin", "Customer"}

Names == {"Alice", "Bob"}

\* A validated request body of the users router.
UserIn == [name : Names, user_type : UserType]

\* A UserOut that also had the name field.
UserOutFieldsWithName == {"id", "name", "user_type"}

UserOutFields == {"id", "user_type"}

\* A slip in the returned model: the largest identifier before the create
\* instead of the new one.
UserOutStale(id, user_type) == [id |-> id - 1, user_type |-> user_type]

\* UserOut(id=..., user_type=...)
UserOut(id, user_type) == [id |-> id, user_type |-> user_type]

ItemNames == {"pen", "book"}

\* A validated request body of the items router.
Item == [name : ItemNames]

\* The fields of an Item that is sent back.
ItemFields == {"id", "name"}

\* first_project.dummy_db.users when the application starts.
InitUsers ==
    << [k |-> 1, v |-> [id |-> 1, name |-> "Alice", user_type |-> "Admin", age |-> 30]],
       [k |-> 2, v |-> [id |-> 2, name |-> "Bob", user_type |-> "Customer"]] >>

\* first_project.dummy_db.items when the application starts.
InitItems ==
    << [k |-> 1, v |-> [id |-> 1, name |-> "pen"]],
       [k |-> 2, v |-> [id |-> 2, name |-> "book"]] >>

\* The identifiers a request may carry: 0 is below every ge=1 constraint,
\* MaxId + 1 is never a key.
IdInputs == 0 .. (MaxId + 1)

\* The identifiers the path of GET /users/{user_id} may carry.
PathInputs == {1, 2}

\* A slip in create: new_id = len(d) + 1
NewIdLen(d) == Len(d) + 1

\* new_id = max(d.keys()) + 1
NewId(d) == Max(Keys(d)) + 1

\* A slip in the stored record: the 'id' entry is left out.
NewRecordNoId(id, body) == body

\* {'id': id, **body.dict()}
NewRecord(id, body) == Merge([id |-> id], body)

\* A slip in the constraint: ge=0.
GeZero(id) == id >= 0

\* Path(ge=1) / Query(ge=1)
GeOne(id) == id >= 1

\* A slip in replace: the body of create is reused, so the record goes
\* under a new identifier.
ReplaceAsCreate(d, id, body) == Put(d, NewId(d), NewRecord(NewId(d), body))

\* A slip in replace: the new fields are merged into the stored record, as
\* dict.update() would.
ReplaceKeepOld(d, id, body) ==
    Put(d, id, IF Has(d, id) THEN Merge(Get(d, id), NewRecord(id, body))
               ELSE NewRecord(id, body))

\* users[id] = {'id': id, **body.dict()}
Replace(d, id, body) == Put(d, id, NewRecord(id, body))

CreateOps == {"create_user", "create_item"}

\* The create request the coming request directly follows, if there is one:
\* the identifier it returned and the body it was given.
JustCreated ==
    IF last.op \in CreateOps /\ last.status = HTTP_201_CREATED
    THEN [id |-> last.id, body |-> last.body]
    ELSE NoRecord

ReplaceOps == {"update_user", "update_item"}

DeleteOps == {"delete_user", "delete_item"}

\* Records a and b have the same keys and the same values.
SameRecord(a, b) == DOMAIN a = DOMAIN b /\ \A f \in DOMAIN a : a[f] = b[f]

\* The coming create, replace or delete of the users or items router asks
\* what the request right before it asked: the same operation with the
\* same body and, but for a create, the same identifier.
Repeats(app, op, id, body) ==
    /\ app \in {"users", "items"}
    /\ op \in CreateOps \cup ReplaceOps \cup DeleteOps
    /\ last.app = app
    /\ last.op = op
    /\ SameRecord(last.body, body)
    /\ (op \in CreateOps \/ last.id = id)

\* What a request answered: pre is the store and was the identifiers that had
\* ever been its keys when the request arrived, after the create it directly
\* follows, and prev the request right before when the request repeats it
\* (the store that one found and what it answered).  Handlers fill in path,
\* seq, run and cookies (the Set-Cookie headers of the answer) with EXCEPT.
Outcome(app, op, id, body, status, ret, pre) ==
    [app |-> app, op |-> op, id |-> id, body |-> body, status |-> status,
     ret |-> ret, pre |-> pre, was |-> ever[app], after |-> JustCreated,
     prev |-> IF Repeats(app, op, id, body)
              THEN [id |-> last.id, status |-> last.status, ret |-> last.ret,
                    pre |-> last.pre]
              ELSE NoRecord,
     path |-> NoId, seq |-> << >>, run |-> << >>, cookies |-> << >>]

\* The identifiers returned by the creates of `app` that ran back to back,
\* the one that has just returned new_id included.
Run(app, op, new_id) ==
    IF last.app = app /\ last.op = op /\ last.status = HTTP_201_CREATED
    THEN Append(last.run, new_id)
    ELSE << new_id >>

(* ------------------------- routers/users.py ---------------------------- *)

get_all_users ==
    /\ last' = [Outcome("users", "get_all_users", NoId, NoRecord, HTTP_200_OK,
                        NoRecord, users) EXCEPT !.seq = Values(users)]
    /\ UNCHANGED <<users, items, dummy_db, posts, now, timestamp, instances, ever>>

\* The handler declares no user_id: the path's identifier is not read, the
\* identifier comes from the required query parameter id (q is {} when the
\* request has none).
get_user_by_id(user_id, q) ==
    /\ UNCHANGED <<users, items, dummy_db, posts, now, timestamp, instances, ever>>
    /\ IF q = {} \/ \E id \in q : ~GeOne(id)
       THEN last' = [Outcome("users", "get_user_by_id", NoId, NoRecord,
                             HTTP_422_UNPROCESSABLE, NoRecord, users)
                        EXCEPT !.path = user_id,
                               !.id = IF q = {} THEN NoId ELSE CHOOSE id \in q : TRUE]
       ELSE LET id == CHOOSE id \in q : TRUE IN
            IF ~Has(users, id)
            THEN last' = [Outcome("users", "get_user_by_id", id, NoRecord,
                                  HTTP_404_NOT_FOUND, NoRecord, users)
                             EXCEPT !.path = user_id]
            ELSE last' = [Outcome("users", "get_user_by_id", id, NoRecord,
                                  HTTP_200_OK, Get(users, id), users)
                             EXCEPT !.path = user_id]

\* max() of an empty dict's keys raises ValueError: the request ends in a
\* server error before anything is written.
create_user(user) ==
    /\ UNCHANGED <<items, dummy_db, posts, now, timestamp, instances>>
    /\ IF users = << >>
       THEN /\ UNCHANGED <<users, ever>>
            /\ last' = Outcome("users", "create_user", NoId, user,
                               HTTP_500_INTERNAL, NoRecord, users)
       ELSE LET new_id == NewId(users)
                user_out == UserOut(new_id, user.user_type)
            IN /\ new_id <= MaxId
               /\ users' = Replace(users, new_id, user)
               /\ ever' = [ever EXCEPT !.users = @ \cup {new_id}]
               /\ last' = [Outcome("users", "create_user", new_id, user,
                                   HTTP_201_CREATED, user_out, users)
                              EXCEPT !.run = Run("users", "create_user", new_id)]

update_user(new_user, user_id) ==
    /\ UNCHANGED <<items, dummy_db, posts, now, timestamp, instances, ever>>
    /\ IF ~GeOne(user_id)
       THEN /\ users' = users
            /\ last' = Outcome("users", "update_user", user_id, new_user,
                               HTTP_422_UNPROCESSABLE, NoRecord, users)
       ELSE IF ~Has(users, user_id)
       THEN /\ users' = users
            /\ last' = Outcome("users", "update_user", user_id, new_user,
                               HTTP_404_NOT_FOUND, NoRecord, users)
       ELSE /\ users' = Replace(users, user_id, new_user)
            /\ last' = Outcome("users", "update_user", user_id, new_user,
                               HTTP_200_OK, UserOut(user_id, new_user.user_type), users)

delete_user(user_id) ==
    /\ UNCHANGED <<items, dummy_db, posts, now, timestamp, instances, ever>>
    /\ IF ~GeOne(user_id)
       THEN /\ users' = users
            /\ last' = Outcome("users", "delete_user", user_id, NoRecord,
                               HTTP_422_UNPROCESSABLE, NoRecord, users)
       ELSE IF ~Has(users, user_id)
       THEN /\ users' = users
            /\ last' = Outcome("users", "delete_user", user_id, NoRecord,
                               HTTP_404_NOT_FOUND, NoRecord, users)
       ELSE /\ users' = Del(users, user_id)
            /\ last' = Outcome("users", "delete_user", user_id, NoRecord,
                               HTTP_204_NO_CONTENT, NoRecord, users)

UserInFields == {"name", "user_type"}

\* The JSON bodies a caller may send for a UserIn: the two fields, with or
\* without an 'id' entry of the caller's own.
UserInJson == UserIn \cup {Merge(u, [id |-> 1]) : u \in UserIn}

\* A slip in the schema: class Config: extra = 'allow', so dict() also
\* returns the entries the class does not declare.
UserInExtraAllowed(json) == json

\* UserIn(**json).dict(): pydantic ignores the entries the class does not
\* declare.
UserInDict(json) == Project(json, UserInFields)

NextUsers ==
    \/ get_all_users
    \/ \E user_id \in PathInputs, q \in {{}} \cup {{id} : id \in IdInputs} :
          get_user_by_id(user_id, q)
    \/ \E user \in UserInJson : create_user(UserInDict(user))
    \/ \E new_user \in UserInJson, user_id \in IdInputs :
          update_user(UserInDict(new_user), user_id)
    \/ \E user_id \in IdInputs : delete_user(user_id)

(* ------------------------- routers/items.py ---------------------------- *)

show_all_items ==
    /\ last' = [Outcome("items", "show_all_items", NoId, NoRecord, HTTP_200_OK,
                        NoRecord, items) EXCEPT !.seq = Values(items)]
    /\ UNCHANGED <<users, items, dummy_db, posts, now, timestamp, instances, ever>>

\* A slip in the fetch: items.pop(item_id) instead of items[item_id].
get_item_popping(item_id) ==
    /\ UNCHANGED <<users, dummy_db, posts, now, timestamp, instances, ever>>
    /\ IF ~Has(items, item_id)
       THEN /\ items' = items
            /\ last' = Outcome("items", "get_item_using_id", item_id, NoRecord,
                               HTTP_404_NOT_FOUND, NoRecord, items)
       ELSE /\ items' = Del(items, item_id)
            /\ last' = Outcome("items", "get_item_using_id", item_id, NoRecord,
                               HTTP_200_OK, Get(items, item_id), items)

get_item_using_id(item_id) ==
    /\ UNCHANGED <<users, items, dummy_db, posts, now, timestamp, instances, ever>>
    /\ IF ~Has(items, item_id)
       THEN last' = Outcome("items", "get_item_using_id", item_id, NoRecord,
                            HTTP_404_NOT_FOUND, NoRecord, items)
       ELSE last' = Outcome("items", "get_item_using_id", item_id, NoRecord,
                            HTTP_200_OK, Get(items, item_id), items)

\* As in create_user, max() raises ValueError on the empty dict.
\* A slip in the import: the items router takes its identifiers from both
\* stores, max(users.keys() | items.keys()) + 1.
create_item_shared_ids(item) ==
    /\ UNCHANGED <<users, dummy_db, posts, now, timestamp, instances>>
    /\ LET new_id == Max(Keys(users) \cup Keys(items)) + 1
       IN /\ Keys(users) \cup Keys(items) # {}
          /\ new_id <= MaxId
          /\ items' = Replace(items, new_id, item)
          /\ ever' = [ever EXCEPT !.items = @ \cup {new_id}]
          /\ last' = [Outcome("items", "create_item", new_id, item,
                              HTTP_201_CREATED, Get(items', new_id), items)
                         EXCEPT !.run = Run("items", "create_item", new_id)]

create_item(item) ==
    /\ UNCHANGED <<users, dummy_db, posts, now, timestamp, instances>>
    /\ IF items = << >>
       THEN /\ UNCHANGED <<items, ever>>
            /\ last' = Outcome("items", "create_item", NoId, item,
                               HTTP_500_INTERNAL, NoRecord, items)
       ELSE LET new_id == NewId(items)
            IN /\ new_id <= MaxId
               /\ items' = Replace(items, new_id, item)
               /\ ever' = [ever EXCEPT !.items = @ \cup {new_id}]
               /\ last' = [Outcome("items", "create_item", new_id, item,
                                   HTTP_201_CREATED, Get(items', new_id), items)
                              EXCEPT !.run = Run("items", "create_item", new_id)]

update_item(item_id, new_item) ==
    /\ UNCHANGED <<users, dummy_db, posts, now, timestamp, instances, ever>>
    /\ IF ~Has(items, item_id)
       THEN /\ items' = items
            /\ last' = Outcome("items", "update_item", item_id, new_item,
                               HTTP_404_NOT_FOUND, NoRecord, items)
       ELSE /\ items' = Replace(items, item_id, new_item)
            /\ last' = Outcome("items", "update_item", item_id, new_item,
                               HTTP_200_OK, Get(items', item_id), items)

\* A slip in delete: item_id is taken for the position of the entry.
delete_item_by_position(item_id) ==
    /\ UNCHANGED <<users, dummy_db, posts, now, timestamp, instances, ever>>
    /\ IF item_id \notin DOMAIN items
       THEN /\ items' = items
            /\ last' = Outcome("items", "delete_item", item_id, NoRecord,
                               HTTP_404_NOT_FOUND, NoRecord, items)
       ELSE /\ items' = Del(items, items[item_id].k)
            /\ last' = Outcome("items", "delete_item", item_id, NoRecord,
                               HTTP_204_NO_CONTENT, NoRecord, items)

delete_item(item_id) ==
    /\ UNCHANGED <<users, dummy_db, posts, now, timestamp, instances, ever>>
    /\ IF ~Has(items, item_id)
       THEN /\ items' = items
            /\ last' = Outcome("items", "delete_item", item_id, NoRecord,
                               HTTP_404_NOT_FOUND, NoRecord, items)
       ELSE /\ items' = Del(items, item_id)
            /\ last' = Outcome("items", "delete_item", item_id, NoRecord,
                               HTTP_204_NO_CONTENT, NoRecord, items)

NextItems ==
    \/ show_all_items
    \/ \E item_id \in IdInputs : get_item_using_id(item_id)
    \/ \E item \in Item : create_item(item)
    \/ \E item_id \in IdInputs, new_item \in Item : update_item(item_id, new_item)
    \/ \E item_id \in IdInputs : delete_item(item_id)

(* ------------- Pydantic for data validation/unset_and_patch.py --------- *)

\* Python's None, as a value of field f (name is a str, age an int).
None(f) == IF f = "age" THEN -1 ELSE "None"

UserUpdateFields == {"name", "age"}

PatchNames == {"Dana"}

PatchAges == {31}

\* dummy_db of the PATCH example when the application starts.
InitDummyDb ==
    << [k |-> 1, v |-> [name |-> "Alice", age |-> 30]],
       [k |-> 2, v |-> [name |-> "Bob", age |-> 25]],
       [k |-> 3, v |-> [name |-> "Charlie", age |-> 35]] >>

\* The values a validated body may give field f: null or a value of its type.
FieldValues(f) == (IF f = "age" THEN PatchAges ELSE PatchNames) \cup {None(f)}

\* The validated JSON bodies a PATCH request may carry: any subset of the
\* two fields, each either null or a value of its type.
PatchBodies ==
    UNION {{[f \in fs |-> IF f = "age" THEN a ELSE n] :
               n \in FieldValues("name"), a \in FieldValues("age")}
              : fs \in SUBSET UserUpdateFields}

\* UserUpdate(**body): a field the body lacks takes its default None, and
\* the model remembers which fields the body set.
UserUpdate(body) ==
    [name |-> IF "name" \in DOMAIN body THEN body["name"] ELSE None("name"),
     age |-> IF "age" \in DOMAIN body THEN body["age"] ELSE None("age"),
     fields_set |-> DOMAIN body]

\* user_update.model_dump(exclude_unset=...)
model_dump(m, exclude_unset) ==
    [f \in (IF exclude_unset THEN m.fields_set ELSE UserUpdateFields) |-> m[f]]

\* A slip in the dump: model_dump() without exclude_unset.
UpdateFieldsAll(user_update) == model_dump(user_update, FALSE)

\* A slip in the dump: model_dump(exclude_none=True).
UpdateFieldsNotNone(user_update) ==
    LET m == model_dump(user_update, FALSE)
    IN [f \in {g \in DOMAIN m : m[g] # None(g)} |-> m[f]]

\* update_fields = user_update.model_dump(exclude_unset=True)
UpdateFields(user_update) == model_dump(user_update, TRUE)

patch_get_all_users ==
    /\ last' = [Outcome("patch", "get_all_users", NoId, NoRecord, HTTP_200_OK,
                        NoRecord, dummy_db) EXCEPT !.seq = Values(dummy_db)]
    /\ UNCHANGED <<users, items, dummy_db, posts, now, timestamp, instances, ever>>

patch_update_user(user_id, body) ==
    /\ UNCHANGED <<users, items, posts, now, timestamp, instances, ever>>
    /\ IF ~Has(dummy_db, user_id)
       THEN /\ dummy_db' = dummy_db
            /\ last' = Outcome("patch", "update_user", user_id, body,
                               HTTP_404_NOT_FOUND, NoRecord, dummy_db)
       ELSE LET user == Get(dummy_db, user_id)
                update_fields == UpdateFields(UserUpdate(body))
            IN /\ dummy_db' = Put(dummy_db, user_id, Merge(user, update_fields))
               /\ last' = Outcome("patch", "update_user", user_id, body,
                                  HTTP_200_OK, Get(dummy_db', user_id), dummy_db)

NextPatch ==
    \/ patch_get_all_users
    \/ \E user_id \in IdInputs, body \in PatchBodies :
          patch_update_user(user_id, body)

(* ----------------------- response_by_path_parm.py ---------------------- *)

PostTitles == {"first post", "second post"}

\* class post(BaseModel): the validated bodies of POST /posts.
post == [title : PostTitles, nb_views : {10, 20}]

PostTitleFields == {"title"}

\* dummy_db of response_by_path_parm when the application starts.
InitPosts ==
    << [k |-> 1, v |-> [title |-> "first post", nb_views |-> 10]],
       [k |-> 2, v |-> [title |-> "second post", nb_views |-> 20]] >>

\* The delete of the same id that the request right before was, if it was.
JustDeletedPost(id) ==
    IF last.app = "posts" /\ last.op = "delete_post" /\ last.id = id
    THEN [id |-> last.id, status |-> last.status, ret |-> last.ret,
          pre |-> last.pre]
    ELSE NoRecord

create_post(new_post) ==
    /\ last' = Outcome("posts", "create_post", NoId, new_post,
                       HTTP_201_CREATED, new_post, posts)
    /\ UNCHANGED <<users, items, dummy_db, posts, now, timestamp, instances, ever>>

delete_post(id) ==
    /\ last' = Outcome("posts", "delete_post", id, NoRecord,
                       HTTP_204_NO_CONTENT, [message |-> "deleted", id |-> id],
                       posts)
    /\ UNCHANGED <<users, items, dummy_db, posts, now, timestamp, instances, ever>>

\* dummy_db[id] raises KeyError for an absent id, which no handler catches.
get_post(id) ==
    /\ last' = [Outcome("posts", "get_post", id, NoRecord,
                        IF Has(posts, id) THEN HTTP_200_OK ELSE HTTP_500_INTERNAL,
                        IF Has(posts, id) THEN Get(posts, id) ELSE NoRecord,
                        posts)
                  EXCEPT !.prev = JustDeletedPost(id)]
    /\ UNCHANGED <<users, items, dummy_db, posts, now, timestamp, instances, ever>>

NextPosts ==
    \/ \E new_post \in post : create_post(new_post)
    \/ \E id \in IdInputs : delete_post(id)
    \/ \E id \in IdInputs : get_post(id)

(* --------------------------- response_parm.py -------------------------- *)

\* The integers a request may give as page.
Pages == (0 - MaxPage) .. MaxPage

\* A slip in the test: page == 1 instead of page != 1.
StatusCodeFlipped(page) ==
    IF page = 1 THEN HTTP_201_CREATED ELSE HTTP_200_OK

\* response.status_code after the handler: 201 if it was set, else the
\* route's default 200.
StatusCode(page) ==
    IF page # 1 THEN HTTP_201_CREATED ELSE HTTP_200_OK

dynamic_status(page) ==
    /\ last' = Outcome("response_parm", "dynamic_status", page, NoRecord,
                       StatusCode(page), [pages |-> page], << >>)
    /\ UNCHANGED <<users, items, dummy_db, posts, now, timestamp, instances, ever>>

\* max_age of my_cookie, in seconds.
max_age == 86400

\* response.set_cookie(key="my_cookie", value="cookie_value", max_age=86400)
set_cookie ==
    /\ last' = [Outcome("response_parm", "set_cookie", NoId, NoRecord,
                        HTTP_200_OK, [message |-> "Cookie has been set"], << >>)
                  EXCEPT !.cookies = << [key |-> "my_cookie",
                                         value |-> "cookie_value",
                                         max_age |-> max_age] >>]
    /\ UNCHANGED <<users, items, dummy_db, posts, now, timestamp, instances, ever>>

NextResponseParm ==
    \/ \E page \in Pages : dynamic_status(page)
    \/ set_cookie

(* -------------------------- intro_to_requset.py ------------------------ *)

\* Query(ge=0, le=100)
ge == 0

le == 100

\* The query strings a request to /debug may carry: none, or query_param
\* with an integer at or next to either limit.
DebugQueries ==
    {NoRecord} \cup {[query_param |-> v] : v \in {ge - 1, ge, ge + 1, le - 1, le, le + 1}}

\* query_param: int = Query(ge=0, le=100) has no default, so the parameter
\* is required; the request is validated before the handler runs.
DebugAccepts(query) ==
    /\ "query_param" \in DOMAIN query
    /\ query.query_param >= ge
    /\ query.query_param <= le

debug(query) ==
    /\ last' = IF DebugAccepts(query)
               THEN Outcome("intro_to_requset", "debug", NoId, query, HTTP_200_OK,
                            [method |-> "GET", path |-> "/debug", query |-> query],
                            << >>)
               ELSE Outcome("intro_to_requset", "debug", NoId, query,
                            HTTP_422_UNPROCESSABLE, NoRecord, << >>)
    /\ UNCHANGED <<users, items, dummy_db, posts, now, timestamp, instances, ever>>

NextIntroToRequest == \E query \in DebugQueries : debug(query)

(* ------------ Pydantic .../opyional_fields_and_defualt_values.py ------- *)

\* The datetimes a caller may pass to a constructor.
SuppliedTimes == {0}

\* A slip in Meeting: start_time: datetime = datetime.now(), the default of
\* Event, evaluated once.
MeetingDefaultStatic == timestamp

\* Field(default_factory=datetime.now): the factory is called when the
\* instance is created.
MeetingDefault == now

\* timestamp: datetime = datetime.now(): the default is the value the
\* expression had when the class body ran.
EventDefault == timestamp

\* The instance a constructor call makes: at is the clock when it ran and
\* supplied says whether the caller passed the field.
Instance(cls, value, supplied) ==
    [cls |-> cls, value |-> value, at |-> now, supplied |-> supplied]

Construct(cls, value, supplied) ==
    /\ Len(instances) < MaxInstances
    /\ instances' = Append(instances, Instance(cls, value, supplied))
    /\ last' = Outcome("defaults", cls, NoId, NoRecord, HTTP_200_OK, NoRecord, << >>)
    /\ UNCHANGED <<users, items, dummy_db, posts, now, timestamp, ever>>

\* Event()
Event == Construct("Event", EventDefault, FALSE)

\* Event(timestamp=t)
EventAt(t) == Construct("Event", t, TRUE)

\* Meeting()
Meeting == Construct("Meeting", MeetingDefault, FALSE)

\* Meeting(start_time=t)
MeetingAt(t) == Construct("Meeting", t, TRUE)

\* time.sleep(1), or any time that passes between two statements.
sleep ==
    /\ now < MaxTime
    /\ now' = now + 1
    /\ last' = Outcome("defaults", "sleep", NoId, NoRecord, HTTP_200_OK, NoRecord, << >>)
    /\ UNCHANGED <<users, items, dummy_db, posts, timestamp, instances, ever>>

NextDefaults ==
    \/ Event
    \/ \E t \in SuppliedTimes : EventAt(t)
    \/ Meeting
    \/ \E t \in SuppliedTimes : MeetingAt(t)
    \/ sleep

(* ------------- Pydantic for data validation/manual_validator.py -------- *)

\* A str is the sequence of its characters.
Chars == {" ", "x"}

Strs == UNION {[1 .. n -> Chars] : n \in 0 .. MaxLen}

\* Python's None where a str may stand.
NoneStr == << "None" >>

\* The descriptions a caller may pass: None or a str.
Descriptions == {NoneStr, << "d" >>, << " ", "d", " " >>}

\* The keyword arguments of Item(...): name, with or without description.
ItemKwargs ==
    {[name |-> n] : n \in Strs}
        \cup {[name |-> n, description |-> d] : n \in Strs, d \in Descriptions}

RECURSIVE lstrip(_)
lstrip(v) == IF v # << >> /\ Head(v) = " " THEN lstrip(Tail(v)) ELSE v

RECURSIVE rstrip(_)
rstrip(v) ==
    IF v # << >> /\ v[Len(v)] = " " THEN rstrip(SubSeq(v, 1, Len(v) - 1)) ELSE v

\* str.strip()
strip(v) == rstrip(lstrip(v))

\* A slip in the pre-validator: v.lstrip().
name_left_stripped(v) == lstrip(v)

\* @validator('name', pre=True)
name_must_be_stripped(v) == strip(v)

\* @validator('description', always=True)
set_default_description(v, values) ==
    IF v = NoneStr THEN << "Description for " >> \o values.name ELSE v

\* Item(**kw): the fields are validated in the order the class declares
\* them, each validator seeing in values the fields validated before it; a
\* field the caller left out takes its default, None for description.
ValidatedItem(kw) ==
    LET name == name_must_be_stripped(kw.name)
        values == [name |-> name]
        v == IF "description" \in DOMAIN kw THEN kw.description ELSE NoneStr
    IN [name |-> name, description |-> set_default_description(v, values)]

construct_item(kw) ==
    /\ last' = Outcome("manual_validator", "Item", NoId, kw, HTTP_200_OK,
                       ValidatedItem(kw), << >>)
    /\ UNCHANGED <<users, items, dummy_db, posts, now, timestamp, instances, ever>>

NextManualValidator == \E kw \in ItemKwargs : construct_item(kw)

(* ------------------------------ responses ------------------------------ *)

\* The body the framework sends for what the handler returned: the routes
\* of the users router declare response_model=UserOut, those of the items
\* router Item, and a response model keeps its own fields only.
Response(l) ==
    IF l.app = "users" /\ l.op \in {"get_user_by_id", "create_user", "update_user"}
    THEN Project(l.ret, UserOutFields)
    ELSE IF l.app = "items"
              /\ l.op \in {"get_item_using_id", "create_item", "update_item"}
    THEN Project(l.ret, ItemFields)
    ELSE IF l.app = "posts" /\ l.op = "get_post"
    THEN Project(l.ret, PostTitleFields)
    ELSE l.ret

\* The body sent for the list a handler returned: get_all_users is declared
\* -> List[UserOut], so every element keeps the fields of UserOut only;
\* show_all_items (-> List) and the PATCH example's get_all_users
\* (-> list[dict]) send the records as they are.
ListResponse(l) ==
    IF l.app = "users" /\ l.op = "get_all_users"
    THEN [i \in DOMAIN l.seq |-> Project(l.seq[i], UserOutFields)]
    ELSE l.seq

\* The store of the application the last request addressed (none for the
\* examples that keep no store).
Store ==
    IF last.app = "users" THEN users
    ELSE IF last.app = "items" THEN items
    ELSE IF last.app = "posts" THEN posts
    ELSE IF last.app = "patch" THEN dummy_db
    ELSE << >>

(* --------------------------- specification ----------------------------- *)

Init ==
    /\ users = InitUsers
    /\ items = InitItems
    /\ dummy_db = InitDummyDb
    /\ posts = InitPosts
    /\ now = 0
    /\ timestamp = now
    /\ instances = << >>
    /\ tasks = << >>
    /\ ever = [users |-> Keys(InitUsers), items |-> Keys(InitItems),
               patch |-> Keys(InitDummyDb), posts |-> Keys(InitPosts),
               response_parm |-> {}, intro_to_requset |-> {},
               defaults |-> {}, manual_validator |-> {}]
    /\ last = [app |-> "none", op |-> "none", id |-> NoId, body |-> NoRecord,
               status |-> HTTP_200_OK, ret |-> NoRecord, pre |-> << >>, was |-> {},
               after |-> NoRecord, prev |-> NoRecord,
               path |-> NoId, seq |-> << >>, run |-> << >>, cookies |-> << >>]

\* The requests of one run address one application: the users router, the
\* items router or the PATCH example.
Serving(app) == last.app \in {"none", app}

\* Requests served one after the other.
Sequential ==
    \/ Serving("users") /\ NextUsers
    \/ Serving("items") /\ NextItems
    \/ Serving("patch") /\ NextPatch
    \/ Serving("posts") /\ NextPosts
    \/ Serving("response_parm") /\ NextResponseParm
    \/ Serving("intro_to_requset") /\ NextIntroToRequest
    \/ Serving("defaults") /\ NextDefaults
    \/ Serving("manual_validator") /\ NextManualValidator

Next == Sequential /\ UNCHANGED tasks

Spec == Init /\ [][Next]_vars

(* ------------- first_project/app.py: both routers in one run ---------- *)

\* The identifiers and bodies of the requests of a run that mixes routers or has
\* requests in flight.
LoopIds == {2, 3}

LoopUser == [name |-> "Bob", user_type |-> "Admin"]

LoopItem == [name |-> "pen"]

LoopUpdate == [age |-> 31]

\* The requests of one run address both routers of first_project, in any
\* order.
NextBoth ==
    /\ UNCHANGED tasks
    /\ \/ get_all_users
       \/ \E id \in LoopIds : get_user_by_id(id, {id})
       \/ create_user(LoopUser)
       \/ \E id \in LoopIds : update_user(LoopUser, id)
       \/ \E id \in LoopIds : delete_user(id)
       \/ show_all_items
       \/ \E id \in LoopIds : get_item_using_id(id)
       \/ create_item(LoopItem)
       \/ \E id \in LoopIds : update_item(id, LoopItem)
       \/ \E id \in LoopIds : delete_item(id)

SpecBoth == Init /\ [][NextBoth]_vars

(* ------------------- requests in flight on the event loop -------------- *)

\* The mutating requests a client may send to an application.
LoopRequests(app) ==
    IF app = "users"
    THEN {[app |-> app, op |-> "create_user", id |-> NoId, body |-> LoopUser]}
         \cup {[app |-> app, op |-> "update_user", id |-> id, body |-> LoopUser] :
                  id \in LoopIds}
         \cup {[app |-> app, op |-> "delete_user", id |-> id, body |-> NoRecord] :
                  id \in LoopIds}
    ELSE IF app = "items"
    THEN {[app |-> app, op |-> "create_item", id |-> NoId, body |-> LoopItem]}
         \cup {[app |-> app, op |-> "update_item", id |-> id, body |-> LoopItem] :
                  id \in LoopIds}
         \cup {[app |-> app, op |-> "delete_item", id |-> id, body |-> NoRecord] :
                  id \in LoopIds}
    ELSE {[app |-> app, op |-> "update_user", id |-> id, body |-> LoopUpdate] :
             id \in LoopIds}

\* A request arrives while others are in flight: its task is pending until
\* the event loop runs its handler.  One process serves one application.
accept(r) ==
    /\ Len(tasks) < MaxTasks
    /\ \A i \in DOMAIN tasks : tasks[i].app = r.app
    /\ tasks' = Append(tasks, [app |-> r.app, op |-> r.op, id |-> r.id,
                               body |-> r.body, pc |-> "pending",
                               status |-> 0, got |-> NoId, pre |-> << >>])
    /\ UNCHANGED <<users, items, dummy_db, posts, now, timestamp, instances,
                   ever, last>>

\* The handler of task t, from its first line to its return: the handlers
\* are coroutines without an await, so the loop runs each in one piece.
Handler(t) ==
    \/ t.app = "users" /\ t.op = "create_user" /\ create_user(t.body)
    \/ t.app = "users" /\ t.op = "update_user" /\ update_user(t.body, t.id)
    \/ t.app = "users" /\ t.op = "delete_user" /\ delete_user(t.id)
    \/ t.app = "items" /\ t.op = "create_item" /\ create_item(t.body)
    \/ t.app = "items" /\ t.op = "update_item" /\ update_item(t.id, t.body)
    \/ t.app = "items" /\ t.op = "delete_item" /\ delete_item(t.id)
    \/ t.app = "patch" /\ t.op = "update_user" /\ patch_update_user(t.id, t.body)

\* The event loop picks any pending task and runs its handler; the task
\* keeps what the handler answered, the identifier it used (got) and the
\* store it found (pre).
handle(i) ==
    /\ tasks[i].pc = "pending"
    /\ Handler(tasks[i])
    /\ tasks' = [tasks EXCEPT ![i] = [@ EXCEPT !.pc = "done",
                                               !.status = last'.status,
                                               !.got = last'.id,
                                               !.pre = last'.pre]]

NextLoop ==
    \/ \E app \in {"users", "items", "patch"} :
          \E r \in LoopRequests(app) : accept(r)
    \/ \E i \in DOMAIN tasks : handle(i)

SpecLoop == Init /\ [][NextLoop]_vars

(* ------------------------------- claims -------------------------------- *)

\* The last request was a create that answered 201.
Created == last.op \in CreateOps /\ last.status = HTTP_201_CREATED

StrictlyIncreasing(q) == \A i, j \in DOMAIN q : i < j => q[i] < q[j]

\* C1: a create on a non-empty store assigns max(existing ids) + 1, an
\* identifier above every identifier the store held when the request
\* arrived, and stores the record under it; the identifiers returned by
\* creates that ran back to back are strictly increasing (hence distinct).
C1_CreateAssignsMaxPlusOne ==
    (last.op \in CreateOps /\ last.pre # << >>) =>
        /\ last.status = HTTP_201_CREATED
        /\ last.id = Max(Keys(last.pre)) + 1
        /\ \A k \in Keys(last.pre) : last.id > k
        /\ Keys(Store) = Keys(last.pre) \cup {last.id}
        /\ last.run # << >>
        /\ last.run[Len(last.run)] = last.id
        /\ StrictlyIncreasing(last.run)

\* C1 witness: the second of two creates in a row.
C1_Witness == Created /\ Len(last.run) >= 2

\* C2: an identifier that has been a key of the store before the request
\* arrived (a deleted one in particular) is never assigned by a create.
C2_NoIdReuse == Created => last.id \notin last.was

\* C3: a create on the empty store answers 201, assigns identifier 1 and
\* stores {id: 1, **fields} under key 1.
C3_CreateOnEmptyStore ==
    (last.op \in CreateOps /\ last.pre = << >>) =>
        /\ last.status = HTTP_201_CREATED
        /\ last.id = 1
        /\ Keys(Store) = {1}
        /\ Get(Store, 1) = Merge([id |-> 1], last.body)

\* The last request was a PATCH of an identifier the store held.
Merged ==
    last.app = "patch" /\ last.op = "update_user" /\ Has(last.pre, last.id)

\* C4: a PATCH of a present identifier answers 200 and the stored record
\* then has, for every key of the request body, the value the body gave,
\* and for every other field the value it had; an empty body changes
\* nothing.
C4_MergeChangesSuppliedKeysOnly ==
    Merged =>
        LET old == Get(last.pre, last.id)
            new == Get(dummy_db, last.id)
        IN /\ last.status = HTTP_200_OK
           /\ DOMAIN new = (DOMAIN old) \cup (DOMAIN last.body)
           /\ \A f \in DOMAIN new :
                 new[f] = IF f \in DOMAIN last.body THEN last.body[f] ELSE old[f]
           /\ last.ret = new
           /\ (DOMAIN last.body = {} => dummy_db = last.pre)

\* C4 witness: {age: 31} merged into {name: Alice, age: 30}.
C4_Witness ==
    /\ Merged
    /\ last.id = 1
    /\ Get(last.pre, 1) = [name |-> "Alice", age |-> 30]
    /\ last.body = [age |-> 31]
    /\ Get(dummy_db, 1) = [name |-> "Alice", age |-> 31]

\* C5: in a PATCH of a present identifier a field the body gives as null is
\* stored as None, a field the body omits keeps its stored value, and a
\* field becomes None only when the body gave it as null.
C5_NullIsWrittenUnsetIsNot ==
    Merged =>
        LET old == Get(last.pre, last.id)
            new == Get(dummy_db, last.id)
        IN \A f \in UserUpdateFields :
              /\ (f \in DOMAIN last.body /\ last.body[f] = None(f)) => new[f] = None(f)
              /\ f \notin DOMAIN last.body => new[f] = old[f]
              /\ (new[f] = None(f) /\ old[f] # None(f)) =>
                    (f \in DOMAIN last.body /\ last.body[f] = None(f))

\* C5 witness: {name: null} sets the name of a user to None and leaves the
\* age, which the body omits, as it was.
C5_Witness ==
    /\ Merged
    /\ last.body = [name |-> None("name")]
    /\ Get(last.pre, last.id).name # None("name")
    /\ Get(last.pre, last.id).age # None("age")
    /\ Get(dummy_db, last.id).name = None("name")
    /\ Get(dummy_db, last.id).age = Get(last.pre, last.id).age

\* The last request was a PUT of the users or items router on an
\* identifier the store held.
Replaced ==
    /\ last.app \in {"users", "items"}
    /\ last.op \in ReplaceOps
    /\ Has(last.pre, last.id)

\* C6: a PUT of a present identifier answers 200 and the stored record is
\* then exactly {id, **fields}: its keys are id and the keys of the body,
\* its id is the addressed identifier and its other fields are the body's.
C6_ReplaceOverwritesWholeRecord ==
    Replaced =>
        LET new == Get(Store, last.id)
        IN /\ last.status = HTTP_200_OK
           /\ DOMAIN new = {"id"} \cup DOMAIN last.body
           /\ new["id"] = last.id
           /\ \A f \in DOMAIN last.body : new[f] = last.body[f]

\* C6 witness: a PUT on a user whose record had a field (age) the body
\* lacks; the field is gone.
C6_Witness ==
    /\ Replaced
    /\ last.app = "users"
    /\ "age" \in DOMAIN Get(last.pre, last.id)
    /\ "age" \notin DOMAIN Get(users, last.id)

\* The last request was a replace, a merge or a delete of an identifier
\* the store did not hold.
Absent ==
    /\ last.op \in ReplaceOps \cup {"delete_user", "delete_item"}
    /\ ~Has(last.pre, last.id)

\* C7 as stated: a replace, merge or delete of an absent identifier
\* answers 404 and leaves the store as it was.
C7_AbsentIdIsNotFound ==
    Absent => (last.status = HTTP_404_NOT_FOUND /\ Store = last.pre)

\* C7 amended: a replace, merge or delete of an absent identifier leaves
\* the store as it was and answers 404, except that the users router
\* answers 422 for an identifier below 1; and no request that answers
\* with an error changes the store.
C7_AbsentIdFailsWithoutEffect ==
    /\ Absent =>
          /\ Store = last.pre
          /\ last.status = IF last.app = "users" /\ last.id < 1
                           THEN HTTP_422_UNPROCESSABLE
                           ELSE HTTP_404_NOT_FOUND
    /\ (last.app # "none"
        /\ last.status \notin {HTTP_200_OK, HTTP_201_CREATED, HTTP_204_NO_CONTENT})
          => Store = last.pre

\* C7 witness: PUT /users/{user_id} for an identifier above 0 the store
\* does not hold.
C7_Witness ==
    /\ Absent
    /\ last.app = "users"
    /\ last.op = "update_user"
    /\ last.id >= 1
    /\ last.status = HTTP_404_NOT_FOUND
    /\ users = last.pre

GetOps == {"get_user_by_id", "get_item_using_id"}

\* The last request was a fetch by an identifier.
Got == last.op \in GetOps /\ last.id # NoId

\* C8 as stated: get(id) answers the stored record when id is present and
\* 404 when it is absent.
C8_GetReturnsStoredRecord ==
    Got => IF Has(last.pre, last.id)
           THEN last.status = HTTP_200_OK /\ Response(last) = Get(last.pre, last.id)
           ELSE last.status = HTTP_404_NOT_FOUND

\* C8 amended: for a present identifier the handler returns the stored
\* record and the answer is 200; get_item_using_id sends the record as it
\* is stored, get_user_by_id sends its id and user_type only.  For an
\* absent identifier the answer is 404, except that get_user_by_id answers
\* 422 for an identifier below 1.
C8_GetReturnsStoredRecordAsDeclared ==
    Got => IF Has(last.pre, last.id)
           THEN /\ last.status = HTTP_200_OK
                /\ last.ret = Get(last.pre, last.id)
                /\ Response(last) =
                      IF last.app = "users"
                      THEN [f \in {"id", "user_type"} |-> Get(last.pre, last.id)[f]]
                      ELSE Get(last.pre, last.id)
           ELSE last.status = IF last.app = "users" /\ last.id < 1
                              THEN HTTP_422_UNPROCESSABLE
                              ELSE HTTP_404_NOT_FOUND

\* C8 witness: a user is fetched; the stored record has a name, the answer
\* has none.
C8_Witness ==
    /\ Got
    /\ last.app = "users"
    /\ last.status = HTTP_200_OK
    /\ "name" \in DOMAIN Get(users, last.id)
    /\ "name" \notin DOMAIN Response(last)

\* The last request was a fetch by the identifier that the create right
\* before it returned.
GotAfterCreate ==
    /\ Got
    /\ DOMAIN last.after # {}
    /\ last.after.id = last.id

\* C9 as stated: get(id) right after create(fields) returned id answers
\* exactly fields plus id.
C9_RoundTrip ==
    GotAfterCreate =>
        /\ last.status = HTTP_200_OK
        /\ Response(last) = Merge([id |-> last.id], last.after.body)

\* C9 amended: get(id) right after create(fields) returned id answers 200
\* and the handler returns exactly fields plus id; the items router sends
\* that record, the users router sends its id and user_type only.
C9_RoundTripAsDeclared ==
    GotAfterCreate =>
        /\ last.status = HTTP_200_OK
        /\ last.ret = Merge([id |-> last.id], last.after.body)
        /\ Response(last) =
              IF last.app = "users"
              THEN [id |-> last.id, user_type |-> last.after.body.user_type]
              ELSE Merge([id |-> last.id], last.after.body)

\* C9 witness: a user is fetched right after it was created; what the
\* handler returns has the name of the create's body, the answer has no
\* name.
C9_Witness ==
    /\ GotAfterCreate
    /\ last.app = "users"
    /\ last.ret.name = last.after.body.name
    /\ "name" \notin DOMAIN Response(last)

\* C10 as stated: what create answers is the record it stored under the
\* new identifier.
C10_CreateReturnsStoredRecord ==
    Created => Response(last) = Get(Store, last.id)

\* C10 amended: create stores {id, **fields} under the new identifier;
\* create_item answers the stored record, create_user answers the new id
\* and the supplied user_type without the name.
C10_CreateReturnsDeclaredFields ==
    Created =>
        /\ Get(Store, last.id) = Merge([id |-> last.id], last.body)
        /\ IF last.app = "users"
           THEN /\ last.ret = [id |-> last.id, user_type |-> last.body.user_type]
                /\ Response(last) = last.ret
           ELSE /\ last.ret = Get(Store, last.id)
                /\ Response(last) = last.ret

\* C10 witness: a user was created; the stored record has the name of the
\* body, the answer has none.
C10_Witness ==
    /\ Created
    /\ last.app = "users"
    /\ Get(users, last.id).name = last.body.name
    /\ "name" \notin DOMAIN last.ret

\* The last request was a delete that answered 204.
Deleted == last.op \in DeleteOps /\ last.status = HTTP_204_NO_CONTENT

\* The identifiers that had been deleted, and not stored under again, when
\* the last request arrived.
Gone == last.was \ Keys(last.pre)

\* C11: a delete that answers 204 removes the addressed record and no
\* other; a fetch of an identifier that was deleted and has not been stored
\* under since answers 404.
C11_GetAfterDeleteIsNotFound ==
    /\ Deleted =>
          /\ Has(last.pre, last.id)
          /\ Keys(Store) = Keys(last.pre) \ {last.id}
          /\ \A k \in Keys(Store) : Get(Store, k) = Get(last.pre, k)
    /\ (Got /\ last.id \in Gone) => last.status = HTTP_404_NOT_FOUND

\* C11 witness: a fetch of a deleted identifier while other records are
\* still stored.
C11_Witness ==
    /\ Got
    /\ last.id \in Gone
    /\ last.status = HTTP_404_NOT_FOUND
    /\ last.pre # << >>

\* C12: a delete of an identifier that was deleted and has not been stored
\* under since answers 404 and changes nothing; so does a delete that
\* repeats the delete right before it that answered 204.
C12_SecondDeleteIsNotFound ==
    /\ (last.op \in DeleteOps /\ last.id \in Gone) =>
          (last.status = HTTP_404_NOT_FOUND /\ Store = last.pre)
    /\ (last.op \in DeleteOps /\ DOMAIN last.prev # {}
        /\ last.prev.status = HTTP_204_NO_CONTENT) =>
          last.status = HTTP_404_NOT_FOUND

\* C12 witness: the same delete twice in a row, 204 then 404.
C12_Witness ==
    /\ last.op \in DeleteOps
    /\ DOMAIN last.prev # {}
    /\ last.prev.status = HTTP_204_NO_CONTENT
    /\ last.status = HTTP_404_NOT_FOUND

\* The last request was a PUT of a present identifier that repeats the PUT
\* right before it.
ReplacedTwice ==
    /\ Replaced
    /\ DOMAIN last.prev # {}
    /\ Has(last.prev.pre, last.id)

\* C13: the second of two identical PUTs in a row on a present identifier
\* leaves the store as the first one left it, and both answer the same:
\* 200 with the same value.
C13_ReplaceIsIdempotent ==
    ReplacedTwice =>
        /\ Store = last.pre
        /\ last.status = HTTP_200_OK
        /\ last.prev.status = HTTP_200_OK
        /\ SameRecord(last.ret, last.prev.ret)

\* C13 witness: two identical PUTs in a row of which the first changed the
\* record.
C13_Witness ==
    /\ ReplacedTwice
    /\ last.prev.pre # last.pre
    /\ Store = last.pre

ListOps == {"get_all_users", "show_all_items"}

\* The keys of dict d in the order in which they were inserted.
KeySeq(d) == [i \in DOMAIN d |-> d[i].k]

\* C14: a list request returns one record per key of the store, the i-th
\* being the record of the i-th key in insertion order, and the body sent
\* has the same records in the same order.  That order is kept
\* by every request: a replace or a merge leaves it as it is, a create puts
\* the new identifier last, a delete takes the identifier out.
C14_ListInInsertionOrder ==
    /\ last.op \in ListOps =>
          /\ Len(last.seq) = Cardinality(Keys(last.pre))
          /\ \A i \in DOMAIN last.seq :
                last.seq[i] = Get(last.pre, KeySeq(last.pre)[i])
          /\ \A i, j \in DOMAIN last.pre :
                i # j => KeySeq(last.pre)[i] # KeySeq(last.pre)[j]
          /\ Len(ListResponse(last)) = Len(last.seq)
          /\ last.app \in {"users", "items"} =>
                \A i \in DOMAIN last.seq :
                   ListResponse(last)[i].id = KeySeq(last.pre)[i]
    /\ (Replaced \/ Merged) => KeySeq(Store) = KeySeq(last.pre)
    /\ Created => KeySeq(Store) = Append(KeySeq(last.pre), last.id)
    /\ Deleted => KeySeq(Store) = SelectSeq(KeySeq(last.pre), LAMBDA k : k # last.id)

\* C14 witness: a list of two or more users after an identifier was
\* deleted and a new one created; the created record comes last.
C14_Witness ==
    /\ last.op \in ListOps
    /\ last.app = "users"
    /\ Gone # {}
    /\ Len(last.seq) >= 2
    /\ last.seq[Len(last.seq)].id \notin Keys(InitUsers)

ReadOps == ListOps \cup GetOps

\* C15: a list or a fetch, whatever it answers, leaves the store as it
\* found it.
C15_ReadsAreSafe == last.op \in ReadOps => Store = last.pre

\* C15 witness: a fetch that answered 404 and a store that still holds what
\* it held.
C15_Witness ==
    /\ last.op \in GetOps
    /\ last.status = HTTP_404_NOT_FOUND
    /\ last.pre # << >>
    /\ Store = last.pre

\* The last request was a create that repeats the create right before it.
CreatedTwice == last.op \in CreateOps /\ DOMAIN last.prev # {}

\* C16: of two creates in a row with the same fields each adds a record:
\* both answer 201, the two identifiers differ, the store has two keys more
\* than before the first, and the two records agree on every field of the
\* body.
C16_CreateTwiceAddsTwoRecords ==
    CreatedTwice =>
        /\ last.prev.status = HTTP_201_CREATED
        /\ last.status = HTTP_201_CREATED
        /\ last.id # last.prev.id
        /\ Keys(Store) = Keys(last.prev.pre) \cup {last.prev.id, last.id}
        /\ Cardinality(Keys(Store)) = Cardinality(Keys(last.prev.pre)) + 2
        /\ \A f \in DOMAIN last.body :
              Get(Store, last.id)[f] = Get(Store, last.prev.id)[f]

\* The last request was a delete that repeats the delete right before it.
DeletedTwice == last.op \in DeleteOps /\ DOMAIN last.prev # {}

\* C17: the second of two identical deletes in a row leaves the store as
\* the first one left it.
C17_DeleteTwiceIsDeleteOnce == DeletedTwice => Store = last.pre

\* C17 witness: two identical deletes in a row of which the first removed
\* a record.
C17_Witness ==
    /\ DeletedTwice
    /\ last.prev.status = HTTP_204_NO_CONTENT
    /\ last.prev.pre # last.pre
    /\ Store = last.pre

\* delete_post answered for an id that was a key of the posts.
DeletedPost ==
    /\ last.app = "posts"
    /\ last.op = "delete_post"
    /\ Has(last.pre, last.id)

\* get_post followed a delete_post of the same id, a key before the delete.
GotDeletedPost ==
    /\ last.app = "posts"
    /\ last.op = "get_post"
    /\ DOMAIN last.prev # {}
    /\ Has(last.prev.pre, last.id)

\* C18: once delete_post has answered for a post of dummy_db, the id is no
\* longer a key of dummy_db, and a get_post of that id right after does not
\* return the post.
C18_DeletePostDeletes ==
    /\ DeletedPost => ~Has(posts, last.id)
    /\ GotDeletedPost =>
          /\ ~Has(posts, last.id)
          /\ last.status # HTTP_200_OK
          /\ Response(last) # Project(Get(last.prev.pre, last.id), PostTitleFields)

\* C19: get_post of an id that is not a key of dummy_db answers 404.
C19_AbsentPostIsNotFound ==
    (last.app = "posts" /\ last.op = "get_post" /\ ~Has(last.pre, last.id))
        => last.status = HTTP_404_NOT_FOUND

\* C20: dynamic_status answers 200 for page 1 and 201 for every other
\* page, and its body is {pages: page} in both cases.
C20_DynamicStatus ==
    last.op = "dynamic_status" =>
        /\ last.status = (IF last.id = 1 THEN 200 ELSE 201)
        /\ Response(last) = [pages |-> last.id]

\* C20 witness: dynamic_status has answered 201 for a page other than 1.
C20_Witness ==
    /\ last.op = "dynamic_status"
    /\ last.id # 1
    /\ last.status = HTTP_201_CREATED
    /\ Response(last) = [pages |-> last.id]

\* C21: the cookie my_cookie that set_cookie sets is valid for 30 minutes:
\* its max_age is 30 * 60 seconds.
C21_CookieValidThirtyMinutes ==
    last.op = "set_cookie" =>
        \E i \in DOMAIN last.cookies :
            /\ last.cookies[i].key = "my_cookie"
            /\ last.cookies[i].max_age = 30 * 60

\* C22: /debug accepts a request without query_param and a request whose
\* query_param is in 0..100, and answers 422 only to a supplied value
\* outside 0..100.
C22_QueryParamIsOptional ==
    last.op = "debug" =>
        LET supplied == "query_param" \in DOMAIN last.body
            rejected == supplied /\ last.body.query_param \notin 0 .. 100
        IN /\ rejected => last.status = HTTP_422_UNPROCESSABLE
           /\ ~rejected => last.status = HTTP_200_OK

\* The instances of class cls that were created without the field.
Defaulted(cls) ==
    {i \in DOMAIN instances : instances[i].cls = cls /\ ~instances[i].supplied}

\* C23: a Meeting created without start_time has the time of its own
\* creation, so two of them created at different times differ in
\* start_time; all Events created without timestamp have the same
\* timestamp, the one computed when the class was defined, whatever time
\* passed between them.
C23_DefaultPerInstanceOrPerClass ==
    /\ \A i, j \in Defaulted("Meeting") :
          /\ instances[i].value = instances[i].at
          /\ instances[i].at # instances[j].at
                => instances[i].value # instances[j].value
    /\ \A i, j \in Defaulted("Event") :
          /\ instances[i].value = timestamp
          /\ instances[i].value = instances[j].value

\* C23 witness: two Meetings and two Events, all created without the
\* field, each pair at different times; the Meetings differ and the Events
\* agree.
C23_Witness ==
    /\ \E i, j \in Defaulted("Meeting") :
          /\ instances[i].at # instances[j].at
          /\ instances[i].value # instances[j].value
    /\ \E i, j \in Defaulted("Event") :
          /\ instances[i].at # instances[j].at
          /\ instances[i].value = instances[j].value

\* s is v without the whitespace at its two ends.
IsStripOf(s, v) ==
    /\ s = << >> \/ (Head(s) # " " /\ s[Len(s)] # " ")
    /\ \E i \in 0 .. Len(v) :
          /\ i + Len(s) <= Len(v)
          /\ SubSeq(v, i + 1, i + Len(s)) = s
          /\ \A k \in (1 .. i) \cup ((i + Len(s) + 1) .. Len(v)) : v[k] = " "

\* C24: an Item has the name it was given without the whitespace at its
\* ends; built without a description (or with None) its description is
\* "Description for " followed by that stripped name; a description that
\* was supplied is kept as it is.
C24_DefaultDescriptionFromStrippedName ==
    (last.app = "manual_validator" /\ last.op = "Item") =>
        /\ IsStripOf(last.ret.name, last.body.name)
        /\ IF "description" \in DOMAIN last.body /\ last.body.description # NoneStr
           THEN last.ret.description = last.body.description
           ELSE last.ret.description = << "Description for " >> \o last.ret.name

\* C24 witness: Item(name=' x x') without a description has name 'x x'
\* and description 'Description for x x'.
C24_Witness ==
    /\ last.app = "manual_validator"
    /\ last.body = [name |-> << " ", "x", " ", "x" >>]
    /\ last.ret.name = << "x", " ", "x" >>
    /\ last.ret.description = << "Description for ", "x", " ", "x" >>

\* C25: GET /users/{user_id} looks up the identifier of the path: it
\* returns the record stored under user_id, or NotFound when user_id is
\* not a key, whatever else the request carries.
C25_GetLooksUpPathId ==
    (last.app = "users" /\ last.op = "get_user_by_id") =>
        IF Has(last.pre, last.path)
        THEN /\ last.status = HTTP_200_OK
             /\ last.ret = Get(last.pre, last.path)
        ELSE last.status = HTTP_404_NOT_FOUND

\* The tasks whose handler has answered with status.
Done(ops, status) ==
    {i \in DOMAIN tasks :
        tasks[i].pc = "done" /\ tasks[i].op \in ops /\ tasks[i].status = status}

\* C26: of the requests in flight together, two creates never obtain the
\* same identifier, a create never writes over a record that is in the
\* store, and a replace or merge never writes under an identifier that a
\* delete has already removed.
C26_ConcurrentRequestsDoNotInterfere ==
    /\ \A i, j \in Done(CreateOps, HTTP_201_CREATED) :
          i # j => tasks[i].got # tasks[j].got
    /\ \A i \in Done(CreateOps, HTTP_201_CREATED) :
          ~Has(tasks[i].pre, tasks[i].got)
    /\ \A i \in Done(ReplaceOps \cup {"update_user"}, HTTP_200_OK) :
          Has(tasks[i].pre, tasks[i].id)

\* C27: every record of the users store has an 'id' entry equal to the
\* key it is stored under, whatever create_user, update_user and
\* delete_user calls came before and whatever their bodies carried.
C27_StoredIdIsItsKey ==
    \A i \in DOMAIN users :
        /\ "id" \in DOMAIN users[i].v
        /\ users[i].v.id = users[i].k

\* C27 witness: update_user has replaced a record that create_user had
\* stored, and the record's id is its key.
C27_Witness ==
    /\ last.app = "users"
    /\ last.op = "update_user"
    /\ last.status = HTTP_200_OK
    /\ last.id \notin Keys(InitUsers)
    /\ Get(users, last.id).id = last.id

\* The last request addressed one of the three stores and changed it.
Wrote(ops, status) ==
    /\ last.app \in {"users", "items", "patch"}
    /\ last.op \in ops
    /\ last.status = status

\* Every record the store held under a key other than id is still there,
\* unchanged.
OthersUntouched(id) ==
    \A k \in Keys(last.pre) \ {id} :
        Has(Store, k) /\ Get(Store, k) = Get(last.pre, k)

\* C28: a replace, merge or delete that succeeded left every record under
\* another id as it was; replace and merge left the set of ids as it was,
\* delete took exactly id out of it; a create that succeeded added exactly
\* one id and changed no record that was there.
C28_WritesTouchOneRecord ==
    /\ Wrote(ReplaceOps, HTTP_200_OK) =>
          /\ OthersUntouched(last.id)
          /\ Keys(Store) = Keys(last.pre)
    /\ Wrote(DeleteOps, HTTP_204_NO_CONTENT) =>
          /\ OthersUntouched(last.id)
          /\ last.id \in Keys(last.pre)
          /\ Keys(Store) = Keys(last.pre) \ {last.id}
    /\ Wrote(CreateOps, HTTP_201_CREATED) =>
          /\ OthersUntouched(last.id)
          /\ last.id \notin Keys(last.pre)
          /\ Keys(Store) = Keys(last.pre) \cup {last.id}

\* C28 witness: a replace has succeeded on a store that holds records
\* under other ids as well, and those records and the set of ids are as
\* they were.
C28_Witness ==
    /\ Wrote(ReplaceOps, HTTP_200_OK)
    /\ Keys(last.pre) \ {last.id} # {}
    /\ Get(Store, last.id) # Get(last.pre, last.id)
    /\ OthersUntouched(last.id)
    /\ Keys(Store) = Keys(last.pre)

\* C29: an operation of the users router leaves the items store as it was
\* and an operation of the items router leaves the users store as it was,
\* and the identifier a create obtains is the largest key of its own store
\* plus one, whatever the other store holds.
C29_StoresAreIndependent ==
    [][/\ last'.app = "users" => items' = items
       /\ last'.app = "items" => users' = users
       /\ (last'.op = "create_user" /\ last'.status = HTTP_201_CREATED)
             => last'.id = Max(Keys(users)) + 1
       /\ (last'.op = "create_item" /\ last'.status = HTTP_201_CREATED)
             => last'.id = Max(Keys(items)) + 1]_vars

\* C29 witness: create_item has obtained an identifier that create_user
\* had handed out in the users store, and the two stores hold different
\* sets of keys.
C29_Witness ==
    /\ last.app = "items"
    /\ last.op = "create_item"
    /\ last.status = HTTP_201_CREATED
    /\ users # InitUsers
    /\ last.id \in Keys(users) \ Keys(InitUsers)
    /\ Keys(users) # Keys(items)

====
